---------------------------- MODULE Spec2Model ----------------------------
(***************************************************************************)
(* The streaming bridge of src/chat.rs:                                    *)
(*                                                                         *)
(*   ChatCompletionDelta::create opens the event stream, creates a        *)
(*   bounded channel of capacity 32 and spawns                             *)
(*   forward_deserialized_chat_response_stream(stream, tx), which pulls    *)
(*   events, decodes the data of every Event::Message and sends the        *)
(*   decoded ChatCompletionDelta on tx.  The caller keeps rx.              *)
(*                                                                         *)
(* The bridge task is modelled between its two suspension points,          *)
(* stream.next().await (pc = "next") and tx.send(..).await (pc = "send").  *)
(* The Consumer (the holder of rx) receives, observes closure, or drops    *)
(* the receiver, at any time.                                              *)
(***************************************************************************)
EXTENDS Integers, Sequences, FiniteSets, TLC

(* channel::<Self>(32), chat.rs line 159 *)
CAPACITY_33 == 32 + 1

CAPACITY == 32

(* Bounds of the model. *)
MaxLen == 4

MaxBurstTail == 2

BurstExtra == 1

MaxIdle == 2

VARIABLES
    events,      \* what the EventSource yields, in order, before it ends (None)
    pos,         \* number of items pulled by stream.next() so far
    pc,          \* "next" | "send" | "done": where the bridge task is
    completion,  \* the decoded record held by the pending tx.send
    queue,       \* the channel's buffer
    txAlive,     \* the Sender has not been dropped
    rxAlive,     \* the Receiver has not been dropped
    streamAlive, \* the EventSource has not been dropped
    outcome,     \* the task's result: "None" while running
    sent,        \* history: records whose send succeeded
    received,    \* history: records the Consumer got from rx.recv()
    closedSeen,  \* the Consumer's rx.recv() has returned None
    attempts,    \* history: number of tx.send calls made
    txDrops,     \* history: number of times the Sender was released
    returns,     \* history: number of results the task produced
    handle,      \* the JoinHandle: "none" | "held" | "dropped" | "awaiting" | "joined"
    idle,        \* time the bridge has spent pending on a source that yields nothing
    spawned      \* number of bridge tasks spawned

callerVars == <<handle, idle, spawned>>

vars == <<events, pos, pc, completion, queue, txAlive, rxAlive, streamAlive,
          outcome, sent, received, closedSeen, attempts, txDrops, returns,
          handle, idle, spawned>>

----------------------------------------------------------------------------
(* The items of the stream: Result<Event, Error>.  *)

Payloads == {"j1", "j2", "bad", "[DONE]"}

Message(data) == [kind |-> "Message", data |-> data]

Open == [kind |-> "Open", data |-> ""]

Err == [kind |-> "Err", data |-> ""]

Items == {Message(d) : d \in Payloads} \cup {Open, Err}

NoRecord == [id |-> "none"]

(* serde_json::from_str::<ChatCompletionDelta>(&event.data): "j1" and "j2"  *)
(* are documents of the record schema, "bad" is JSON of another shape and   *)
(* "[DONE]" is the transport's terminal signal, which is no JSON document.  *)
from_str(data) ==
    CASE data = "j1" -> [ok |-> TRUE, value |-> [id |-> "1"]]
      [] data = "j2" -> [ok |-> TRUE, value |-> [id |-> "2"]]
      [] OTHER       -> [ok |-> FALSE, value |-> NoRecord]

SeqsUpTo(n) == UNION {[1..k -> Items] : k \in 0..n}

(* More decodable Message events than the channel holds. *)
Burst ==
    [i \in 1..(CAPACITY + BurstExtra) |->
        Message(IF i % 2 = 1 THEN "j1" ELSE "j2")]

Sources ==
    SeqsUpTo(MaxLen) \cup {Burst \o t : t \in SeqsUpTo(MaxBurstTail)}

----------------------------------------------------------------------------
(* The state after ChatCompletionDelta::create returned Ok((rx, handle)). *)
Init ==
    /\ events \in Sources
    /\ pos = 0
    /\ pc = "next"
    /\ completion = NoRecord
    /\ queue = <<>>
    /\ txAlive = TRUE
    /\ rxAlive = TRUE
    /\ streamAlive = TRUE
    /\ outcome = "None"
    /\ sent = <<>>
    /\ received = <<>>
    /\ closedSeen = FALSE
    /\ attempts = 0
    /\ txDrops = 0
    /\ returns = 0
    /\ handle = "held"
    /\ idle = 0
    /\ spawned = 1

(* The function returns `result`: its locals stream and tx are dropped. *)
Return_LeakTx(result) ==
    /\ pc' = "done"
    /\ outcome' = result
    /\ returns' = returns + 1
    /\ completion' = NoRecord
    /\ txAlive' = IF result = "Completed" THEN FALSE ELSE txAlive
    /\ txDrops' = IF result = "Completed" THEN txDrops + 1 ELSE txDrops
    /\ streamAlive' = FALSE

Return_KeepRunning(result) ==
    /\ pc' = "next"
    /\ outcome' = result
    /\ returns' = 1
    /\ completion' = NoRecord
    /\ txAlive' = FALSE
    /\ txDrops' = 1
    /\ streamAlive' = FALSE

Return(result) ==
    /\ pc' = "done"
    /\ outcome' = result
    /\ returns' = returns + 1
    /\ completion' = NoRecord
    /\ txAlive' = FALSE
    /\ txDrops' = txDrops + 1
    /\ streamAlive' = FALSE

Loop ==
    UNCHANGED <<pc, completion, outcome, returns, txAlive, txDrops, streamAlive>>

(* stream.next().await is None: the while-let ends, Ok(()). *)
NextNone_Error ==
    /\ pc = "next"
    /\ pos = Len(events)
    /\ idle = 0
    /\ Return("TransportError")
    /\ UNCHANGED <<events, pos, queue, rxAlive, sent, received, closedSeen,
                   attempts>>
    /\ UNCHANGED callerVars

NextNone ==
    /\ pc = "next"
    /\ pos = Len(events)
    /\ idle = 0
    /\ Return("Completed")
    /\ UNCHANGED <<events, pos, queue, rxAlive, sent, received, closedSeen,
                   attempts>>
    /\ UNCHANGED callerVars

(* stream.next().await is Some(Err(e)): `event?` returns the error. *)
NextErr_Retry ==
    /\ pc = "next"
    /\ pos < Len(events)
    /\ events[pos + 1].kind = "Err"
    /\ pos' = pos + 1
    /\ Loop
    /\ UNCHANGED <<events, queue, rxAlive, sent, received, closedSeen,
                   attempts>>
    /\ UNCHANGED callerVars

NextErr ==
    /\ pc = "next"
    /\ pos < Len(events)
    /\ events[pos + 1].kind = "Err"
    /\ pos' = pos + 1
    /\ Return("TransportError")
    /\ UNCHANGED <<events, queue, rxAlive, sent, received, closedSeen,
                   attempts>>
    /\ UNCHANGED callerVars

(* Some(Ok(event)) with event no Event::Message: `_ => {}`. *)
NextOther_Break ==
    /\ pc = "next"
    /\ pos < Len(events)
    /\ events[pos + 1].kind = "Open"
    /\ pos' = pos + 1
    /\ Return("Completed")
    /\ UNCHANGED <<events, queue, rxAlive, sent, received, closedSeen,
                   attempts>>
    /\ UNCHANGED callerVars

NextOther ==
    /\ pc = "next"
    /\ pos < Len(events)
    /\ events[pos + 1].kind = "Open"
    /\ pos' = pos + 1
    /\ Loop
    /\ UNCHANGED <<events, queue, rxAlive, sent, received, closedSeen,
                   attempts>>
    /\ UNCHANGED callerVars

(* Event::Message whose data does not decode: from_str(..)? returns. *)
NextMessageInvalid_Skip ==
    /\ pc = "next"
    /\ pos < Len(events)
    /\ events[pos + 1].kind = "Message"
    /\ ~from_str(events[pos + 1].data).ok
    /\ pos' = pos + 1
    /\ Loop
    /\ UNCHANGED <<events, queue, rxAlive, sent, received, closedSeen,
                   attempts>>
    /\ UNCHANGED callerVars

NextMessageInvalid_DoneBreaks ==
    /\ pc = "next"
    /\ pos < Len(events)
    /\ events[pos + 1].kind = "Message"
    /\ ~from_str(events[pos + 1].data).ok
    /\ pos' = pos + 1
    /\ IF events[pos + 1].data = "[DONE]"
       THEN Return("Completed")
       ELSE Return("DecodeError")
    /\ UNCHANGED <<events, queue, rxAlive, sent, received, closedSeen,
                   attempts>>
    /\ UNCHANGED callerVars

NextMessageInvalid ==
    /\ pc = "next"
    /\ pos < Len(events)
    /\ events[pos + 1].kind = "Message"
    /\ ~from_str(events[pos + 1].data).ok
    /\ pos' = pos + 1
    /\ Return("DecodeError")
    /\ UNCHANGED <<events, queue, rxAlive, sent, received, closedSeen,
                   attempts>>
    /\ UNCHANGED callerVars

(* Event::Message whose data decodes: tx.send(completion) is called. *)
NextMessage ==
    /\ pc = "next"
    /\ pos < Len(events)
    /\ events[pos + 1].kind = "Message"
    /\ from_str(events[pos + 1].data).ok
    /\ pos' = pos + 1
    /\ completion' = from_str(events[pos + 1].data).value
    /\ attempts' = attempts + 1
    /\ pc' = "send"
    /\ UNCHANGED <<events, queue, rxAlive, sent, received, closedSeen,
                   outcome, returns, txAlive, txDrops, streamAlive>>
    /\ UNCHANGED callerVars

(* tx.send(completion).await resolves Ok: the channel is open and has room. *)
(* While the channel is open and full the send stays pending.               *)
SendOk_Front ==
    /\ pc = "send"
    /\ rxAlive
    /\ Len(queue) < CAPACITY
    /\ queue' = <<completion>> \o queue
    /\ sent' = Append(sent, completion)
    /\ pc' = "next"
    /\ completion' = NoRecord
    /\ UNCHANGED <<events, pos, rxAlive, received, closedSeen, attempts,
                   outcome, returns, txAlive, txDrops, streamAlive>>
    /\ UNCHANGED callerVars

SendOk_TrySend ==
    /\ pc = "send"
    /\ rxAlive
    /\ queue' = IF Len(queue) < CAPACITY THEN Append(queue, completion)
                ELSE queue
    /\ sent' = IF Len(queue) < CAPACITY THEN Append(sent, completion)
               ELSE sent
    /\ pc' = "next"
    /\ completion' = NoRecord
    /\ UNCHANGED <<events, pos, rxAlive, received, closedSeen, attempts,
                   outcome, returns, txAlive, txDrops, streamAlive>>
    /\ UNCHANGED callerVars

SendOk ==
    /\ pc = "send"
    /\ rxAlive
    /\ Len(queue) < CAPACITY
    /\ queue' = Append(queue, completion)
    /\ sent' = Append(sent, completion)
    /\ pc' = "next"
    /\ completion' = NoRecord
    /\ UNCHANGED <<events, pos, rxAlive, received, closedSeen, attempts,
                   outcome, returns, txAlive, txDrops, streamAlive>>
    /\ UNCHANGED callerVars

(* tx.send(completion).await resolves Err(SendError): the Receiver is gone. *)
SendErr_Ignore ==
    /\ pc = "send"
    /\ ~rxAlive
    /\ pc' = "next"
    /\ completion' = NoRecord
    /\ UNCHANGED <<events, pos, queue, rxAlive, sent, received, closedSeen,
                   attempts, outcome, returns, txAlive, txDrops, streamAlive>>
    /\ UNCHANGED callerVars

SendErr_Break ==
    /\ pc = "send"
    /\ ~rxAlive
    /\ Return("Completed")
    /\ UNCHANGED <<events, pos, queue, rxAlive, sent, received, closedSeen,
                   attempts>>
    /\ UNCHANGED callerVars

SendErr_Hang ==
    /\ pc = "send"
    /\ ~rxAlive
    /\ FALSE
    /\ UNCHANGED vars

SendErr ==
    /\ pc = "send"
    /\ ~rxAlive
    /\ Return("DeliveryError")
    /\ UNCHANGED <<events, pos, queue, rxAlive, sent, received, closedSeen,
                   attempts>>
    /\ UNCHANGED callerVars

(* One step of forward_deserialized_chat_response_stream. *)
Bridge ==
    \/ NextNone
    \/ NextErr
    \/ NextOther
    \/ NextMessageInvalid
    \/ NextMessage
    \/ SendOk
    \/ SendErr

(* The Consumer: rx.recv().await yields the oldest queued record. *)
Recv ==
    /\ rxAlive
    /\ handle # "awaiting"
    /\ queue # <<>>
    /\ received' = Append(received, Head(queue))
    /\ queue' = Tail(queue)
    /\ UNCHANGED <<events, pos, pc, completion, txAlive, rxAlive, streamAlive,
                   outcome, sent, closedSeen, attempts, txDrops, returns>>
    /\ UNCHANGED callerVars

(* rx.recv().await yields None: the buffer is empty and the Sender dropped. *)
RecvClosed_Early ==
    /\ rxAlive
    /\ handle # "awaiting"
    /\ ~closedSeen
    /\ ~txAlive
    /\ closedSeen' = TRUE
    /\ UNCHANGED <<events, pos, pc, completion, queue, txAlive, rxAlive,
                   streamAlive, outcome, sent, received, attempts, txDrops,
                   returns>>
    /\ UNCHANGED callerVars

RecvClosed ==
    /\ rxAlive
    /\ handle # "awaiting"
    /\ ~closedSeen
    /\ queue = <<>>
    /\ ~txAlive
    /\ closedSeen' = TRUE
    /\ UNCHANGED <<events, pos, pc, completion, queue, txAlive, rxAlive,
                   streamAlive, outcome, sent, received, attempts, txDrops,
                   returns>>
    /\ UNCHANGED callerVars

(* The Consumer drops rx: the channel closes and its buffer is discarded. *)
DropRx ==
    /\ rxAlive
    /\ handle # "awaiting"
    /\ rxAlive' = FALSE
    /\ queue' = <<>>
    /\ UNCHANGED <<events, pos, pc, completion, txAlive, streamAlive, outcome,
                   sent, received, closedSeen, attempts, txDrops, returns>>
    /\ UNCHANGED callerVars

Next ==
    \/ NextNone
    \/ NextErr
    \/ NextOther
    \/ NextMessageInvalid
    \/ NextMessage
    \/ SendOk
    \/ SendErr
    \/ Recv
    \/ RecvClosed
    \/ DropRx

Spec == Init /\ [][Next]_vars

(* The scheduling the claims about termination assume: the runtime polls   *)
(* the spawned task whenever it can proceed, and a Consumer that holds rx  *)
(* keeps calling rx.recv().                                                *)
LiveSpec ==
    /\ Init
    /\ [][Next]_vars
    /\ WF_vars(Bridge)
    /\ WF_vars(Recv)
    /\ WF_vars(RecvClosed)

----------------------------------------------------------------------------
(* The whole life of one request: ChatCompletionDelta::create, the caller's *)
(* use of the JoinHandle it returns, and a source that stops yielding.      *)
(* Here pc = "create" while create awaits openai_request_stream, and        *)
(* pc = "failed" once create has returned Err(StreamError).                 *)

SysInit ==
    /\ events \in Sources
    /\ pos = 0
    /\ pc = "create"
    /\ completion = NoRecord
    /\ queue = <<>>
    /\ txAlive = FALSE
    /\ rxAlive = FALSE
    /\ streamAlive = FALSE
    /\ outcome = "None"
    /\ sent = <<>>
    /\ received = <<>>
    /\ closedSeen = FALSE
    /\ attempts = 0
    /\ txDrops = 0
    /\ returns = 0
    /\ handle = "none"
    /\ idle = 0
    /\ spawned = 0

(* openai_request_stream(..).await? is Err: create returns the StreamError. *)
CreateErr_SpawnFirst ==
    /\ pc = "create"
    /\ pc' = "failed"
    /\ txAlive' = TRUE
    /\ rxAlive' = TRUE
    /\ spawned' = spawned + 1
    /\ handle' = "held"
    /\ UNCHANGED <<events, pos, completion, queue, streamAlive, outcome, sent,
                   received, closedSeen, attempts, txDrops, returns, idle>>

CreateErr ==
    /\ pc = "create"
    /\ pc' = "failed"
    /\ UNCHANGED <<events, pos, completion, queue, txAlive, rxAlive,
                   streamAlive, outcome, sent, received, closedSeen, attempts,
                   txDrops, returns, handle, idle, spawned>>

(* The stream is open: channel(32), tokio::spawn(bridge(stream, tx)),       *)
(* Ok((rx, handle)).  The task starts at its first stream.next().await.     *)
CreateOk ==
    /\ pc = "create"
    /\ streamAlive' = TRUE
    /\ txAlive' = TRUE
    /\ rxAlive' = TRUE
    /\ spawned' = spawned + 1
    /\ handle' = "held"
    /\ pc' = "next"
    /\ UNCHANGED <<events, pos, completion, queue, outcome, sent, received,
                   closedSeen, attempts, txDrops, returns, idle>>

(* stream.next().await stays pending: the source has yielded all its       *)
(* events and neither ends nor fails.  Once it stalls it yields no None.   *)
Stall_Timeout ==
    /\ pc = "next"
    /\ pos = Len(events)
    /\ idle < MaxIdle
    /\ idle' = idle + 1
    /\ IF idle >= 1
       THEN Return("TransportError")
       ELSE Loop
    /\ UNCHANGED <<events, pos, queue, rxAlive, sent, received, closedSeen,
                   attempts, handle, spawned>>

Stall ==
    /\ pc = "next"
    /\ pos = Len(events)
    /\ idle < MaxIdle
    /\ idle' = idle + 1
    /\ Loop
    /\ UNCHANGED <<events, pos, queue, rxAlive, sent, received, closedSeen,
                   attempts, handle, spawned>>

(* The caller drops the JoinHandle: tokio detaches the task, which goes on. *)
DropHandle_Abort ==
    /\ handle = "held"
    /\ handle' = "dropped"
    /\ pc' = "done"
    /\ outcome' = "Cancelled"
    /\ returns' = returns + 1
    /\ completion' = NoRecord
    /\ txAlive' = FALSE
    /\ txDrops' = IF txAlive THEN txDrops + 1 ELSE txDrops
    /\ streamAlive' = FALSE
    /\ UNCHANGED <<events, pos, queue, rxAlive, sent, received, closedSeen,
                   attempts, idle, spawned>>

DropHandle ==
    /\ handle = "held"
    /\ handle' = "dropped"
    /\ UNCHANGED <<events, pos, pc, completion, queue, txAlive, rxAlive,
                   streamAlive, outcome, sent, received, closedSeen, attempts,
                   txDrops, returns, idle, spawned>>

(* The caller awaits the JoinHandle: until it resolves the caller does      *)
(* nothing else, so it neither reads from rx nor drops it.                  *)
AwaitHandle ==
    /\ handle = "held"
    /\ handle' = "awaiting"
    /\ UNCHANGED <<events, pos, pc, completion, queue, txAlive, rxAlive,
                   streamAlive, outcome, sent, received, closedSeen, attempts,
                   txDrops, returns, idle, spawned>>

(* The awaited JoinHandle resolves with the task's result. *)
Join ==
    /\ handle = "awaiting"
    /\ pc = "done"
    /\ handle' = "joined"
    /\ UNCHANGED <<events, pos, pc, completion, queue, txAlive, rxAlive,
                   streamAlive, outcome, sent, received, closedSeen, attempts,
                   txDrops, returns, idle, spawned>>

SysNext ==
    \/ CreateErr
    \/ CreateOk
    \/ NextNone
    \/ NextErr
    \/ NextOther
    \/ NextMessageInvalid
    \/ NextMessage
    \/ SendOk
    \/ SendErr
    \/ Stall
    \/ Recv
    \/ RecvClosed
    \/ DropRx
    \/ DropHandle
    \/ AwaitHandle
    \/ Join

SysSpec == SysInit /\ [][SysNext]_vars

----------------------------------------------------------------------------
(* What the specification expects of an event sequence, stated on the      *)
(* sequence alone.                                                         *)

WellFormed == {"j1", "j2"}

RecordOf(data) == IF data = "j1" THEN [id |-> "1"] ELSE [id |-> "2"]

IsPrefix(s, t) == Len(s) <= Len(t) /\ SubSeq(t, 1, Len(s)) = s

Malformed(item) == item.kind = "Message" /\ item.data \notin WellFormed

Fails(item) == item.kind = "Err" \/ Malformed(item)

Decodable(item) == item.kind = "Message" /\ item.data \in WellFormed

(* Index of the first item at which pulling or decoding fails. *)
FirstStop(evs) ==
    LET F == {i \in 1..Len(evs) : Fails(evs[i])}
    IN  IF F = {} THEN Len(evs) + 1
        ELSE CHOOSE i \in F : \A j \in F : i <= j

(* The decoded records of the well-formed Message events, in order. *)
RecordsOf(evs) ==
    LET m == SelectSeq(evs, Decodable)
    IN  [i \in 1..Len(m) |-> RecordOf(m[i].data)]

MessageCount(evs) == Cardinality({i \in 1..Len(evs) : evs[i].kind = "Message"})

Strip(evs) == SelectSeq(evs, LAMBDA e : e.kind # "Open")

Expected(evs) ==
    LET k == FirstStop(evs)
    IN  [records |-> RecordsOf(SubSeq(evs, 1, k - 1)),
         outcome |-> IF k > Len(evs) THEN "Completed"
                     ELSE IF evs[k].kind = "Err" THEN "TransportError"
                     ELSE "DecodeError"]

----------------------------------------------------------------------------
(* C1: when every Message payload decodes and the source ends without      *)
(* error, a Consumer that pulls until closure has received exactly the     *)
(* decoded records, one per Message event, in source order, and the        *)
(* outcome is Completed.                                                   *)
C1_CleanRun ==
    (closedSeen /\ FirstStop(events) > Len(events)) =>
        /\ received = RecordsOf(events)
        /\ Len(received) = MessageCount(events)
        /\ outcome = "Completed"

C1_Witness ==
    /\ closedSeen
    /\ FirstStop(events) > Len(events)
    /\ Len(received) > CAPACITY
    /\ \E i \in 1..Len(events) : events[i].kind = "Open"

(* C2: in every state the records sent are a prefix of the decoded Message *)
(* payloads in arrival order, one send per decoded Message event pulled,   *)
(* and the records received are a prefix of the records sent.              *)
C2_Order ==
    /\ IsPrefix(sent, RecordsOf(events))
    /\ IsPrefix(received, sent)
    /\ attempts = Len(RecordsOf(SubSeq(events, 1, pos)))
    /\ Len(sent) \in {attempts - 1, attempts}
    /\ rxAlive => sent = received \o queue

C2_Witness ==
    /\ Len(received) >= 2
    /\ received[1] # received[2]
    /\ Len(sent) > Len(received)
    /\ pc = "send"

(* C3: when the first failing item is a Message with a malformed payload,  *)
(* the k-th Message event, a Consumer that pulls until closure has         *)
(* received exactly the k-1 records decoded before it, the outcome is      *)
(* DecodeError, the malformed record was not sent and nothing after it     *)
(* was pulled.                                                             *)
C3_Malformed ==
    \A i \in 1..Len(events) :
        (closedSeen /\ FirstStop(events) = i /\ Malformed(events[i])) =>
            /\ received = RecordsOf(SubSeq(events, 1, i - 1))
            /\ Len(received) = MessageCount(SubSeq(events, 1, i)) - 1
            /\ sent = received
            /\ outcome = "DecodeError"
            /\ pos = i

C3_Witness ==
    /\ closedSeen
    /\ outcome = "DecodeError"
    /\ Len(received) = 2
    /\ pos < Len(events)

(* C4: when the first failing item is a transport error, after n decoded   *)
(* Message events, the bridge stops with nothing pulled after it, a        *)
(* Consumer that pulls until closure has received exactly those n records  *)
(* and the outcome is TransportError.                                      *)
C4_TransportError ==
    \A i \in 1..Len(events) :
        (closedSeen /\ FirstStop(events) = i /\ events[i].kind = "Err") =>
            /\ received = RecordsOf(SubSeq(events, 1, i - 1))
            /\ Len(received) = MessageCount(SubSeq(events, 1, i))
            /\ outcome = "TransportError"
            /\ pos = i
            /\ pc = "done"

C4_Witness ==
    /\ closedSeen
    /\ outcome = "TransportError"
    /\ Len(received) = 1
    /\ pos < Len(events)

(* C5 as the specification states it: once the Consumer has dropped its    *)
(* receiver after consuming m records, the outcome is DeliveryError and    *)
(* the bridge has made at most m+1 send attempts.  It fails on the outcome *)
(* (a source that ends before another send) and on the count (C5_Witness   *)
(* is a run with m = 1 and 34 send attempts).                              *)
C5_Original ==
    (~rxAlive /\ pc = "done") =>
        /\ outcome = "DeliveryError"
        /\ attempts <= Len(received) + 1

(* C5, amended: once the Consumer has dropped its receiver after consuming *)
(* m records, the bridge makes at most m + 32 + 1 send attempts (the       *)
(* records buffered at the drop and the one pending send count too), no    *)
(* send succeeds after the drop, at most one fails, and the outcome is     *)
(* DeliveryError exactly when a send failed; otherwise it is the outcome   *)
(* the source alone determines.                                            *)
C5_Dropped ==
    ~rxAlive =>
        /\ attempts <= Len(received) + 32 + 1
        /\ Len(sent) <= Len(received) + 32
        /\ attempts - Len(sent) \in {0, 1}
        /\ pc = "done" =>
              IF attempts > Len(sent)
              THEN outcome = "DeliveryError"
              ELSE outcome = Expected(events).outcome

C5_Witness ==
    /\ ~rxAlive
    /\ pc = "done"
    /\ outcome = "DeliveryError"
    /\ Len(received) = 1
    /\ attempts = Len(received) + 32 + 1

(* C6: non-Message events are never sent and change nothing: the records   *)
(* sent are always a prefix of what the sequence without its non-Message   *)
(* events gives, and the records a Consumer pulling until closure receives *)
(* and the outcome are those of that sequence (which is itself a source of *)
(* the model, so that the same statement holds of the bridge run on it).   *)
C6_NonMessageIgnored ==
    LET e == Expected(Strip(events))
    IN  /\ IsPrefix(sent, e.records)
        /\ closedSeen => (received = e.records /\ outcome = e.outcome)
        /\ (pc = "done" /\ outcome # "DeliveryError") =>
              (sent = e.records /\ outcome = e.outcome)
        /\ Expected(events) = e

C6_Witness ==
    /\ closedSeen
    /\ Len(events) >= 3
    /\ events[1].kind = "Message"
    /\ events[2].kind = "Open"
    /\ events[3].kind = "Message"
    /\ Len(received) = 2
    /\ Strip(events) # events

(* C7: the Sender is released exactly once, when the bridge returns, on    *)
(* every exit path: the channel is open on the producer side while the     *)
(* bridge runs and closed once it has returned.                            *)
C7_SenderReleased ==
    /\ txAlive <=> (pc # "done")
    /\ txDrops = (IF pc = "done" THEN 1 ELSE 0)
    /\ streamAlive = txAlive
    /\ closedSeen => pc = "done"

C7_Witness ==
    /\ pc = "done"
    /\ outcome = "DecodeError"
    /\ ~txAlive
    /\ txDrops = 1
    /\ queue # <<>>

(* C8: once the bridge has produced its outcome it sends no record, calls  *)
(* no send and pulls no event, and the outcome stays.                      *)
C8_Frozen ==
    [][outcome # "None" =>
          /\ sent' = sent
          /\ attempts' = attempts
          /\ pos' = pos
          /\ outcome' = outcome]_vars

C8_Witness ==
    /\ outcome \in {"TransportError", "DecodeError", "DeliveryError"}
    /\ pos < Len(events)
    /\ Len(received) < Len(RecordsOf(events))
    /\ (closedSeen \/ ~rxAlive)

(* C9: a finished run has produced exactly one outcome; it is Completed,   *)
(* or Failed with exactly one of the three errors, the error of the first  *)
(* failing step: every earlier pull, decode and send succeeded, and the    *)
(* step the bridge stopped at is the one the error names.                  *)
C9_FirstError ==
    /\ returns = (IF pc = "done" THEN 1 ELSE 0)
    /\ (pc = "done") <=> (outcome # "None")
    /\ pc = "done" =>
          LET last == IF pos = 0 THEN Open ELSE events[pos]
              sendFailed == attempts > Len(sent)
          IN  /\ \A i \in 1..(pos - 1) : ~Fails(events[i])
              /\ Len(sent) >= attempts - 1
              /\ outcome = (CASE last.kind = "Err" -> "TransportError"
                              [] Malformed(last)   -> "DecodeError"
                              [] sendFailed        -> "DeliveryError"
                              [] OTHER             -> "Completed")
              /\ outcome = "Completed" => pos = Len(events)
              /\ outcome = "DeliveryError" => (~rxAlive /\ Decodable(last))

C9_Witness ==
    /\ pc = "done"
    /\ outcome = "DeliveryError"
    /\ \E i \in (pos + 1)..Len(events) : Fails(events[i])

(* C10: the channel holds at most 32 records; a send that finds the        *)
(* channel full stays pending and the bridge takes no step (it pulls       *)
(* nothing) until the Consumer removes a record or drops the receiver; the *)
(* send calls made exceed the records received by at most 32 + 1.          *)
C10_Backpressure ==
    /\ Len(queue) <= 32
    /\ (pc = "send" /\ rxAlive /\ Len(queue) = 32) => ~ENABLED Bridge
    /\ attempts - Len(received) <= 32 + 1
    /\ pc = "send" => attempts = Len(sent) + 1

C10_Witness ==
    /\ pc = "send"
    /\ rxAlive
    /\ Len(queue) = 32
    /\ attempts - Len(received) = 32 + 1
    /\ pos < Len(events)

(* C11: under fair scheduling, with a source that ends or fails and a      *)
(* Consumer that keeps pulling or drops its receiver, the bridge           *)
(* eventually exits with exactly one outcome, and the Consumer, unless it  *)
(* dropped the receiver, eventually observes closure.                      *)
C11_Terminates ==
    /\ <>(pc = "done" /\ returns = 1 /\ outcome # "None")
    /\ <>(closedSeen \/ ~rxAlive)

C11_Witness ==
    /\ pc = "done"
    /\ returns = 1
    /\ closedSeen
    /\ Len(received) > CAPACITY
    /\ outcome = "TransportError"

(* C13: the records sent and the outcome are a function of the event       *)
(* sequence alone: whatever the scheduling, a run whose Consumer kept its  *)
(* receiver ends with the records and the outcome the sequence            *)
(* determines, so that a replay of the sequence gives them again.          *)
C13_Replay ==
    /\ (pc = "done" /\ (rxAlive \/ closedSeen)) =>
          /\ sent = Expected(events).records
          /\ outcome = Expected(events).outcome
    /\ closedSeen => received = Expected(events).records
    /\ rxAlive => IsPrefix(sent, Expected(events).records)

C13_Witness ==
    /\ pc = "done"
    /\ closedSeen
    /\ Len(sent) > CAPACITY
    /\ outcome = "DecodeError"

(* C15: records in the channel when the bridge exits are not lost: the     *)
(* Consumer cannot observe closure while a record is buffered, and when    *)
(* it observes closure it has received every record whose send succeeded.  *)
C15_NoLoss ==
    /\ closedSeen => (received = sent /\ queue = <<>>)
    /\ (pc = "done" /\ rxAlive /\ queue # <<>>) =>
          (~closedSeen /\ ~ENABLED RecvClosed /\ ENABLED Recv)
    /\ rxAlive => Len(received) + Len(queue) = Len(sent)

C15_Witness ==
    /\ pc = "done"
    /\ outcome \in {"TransportError", "DecodeError"}
    /\ rxAlive
    /\ Len(queue) >= 2
    /\ Len(received) >= 1

(* C17: the terminal signal has no exemption: when it arrives as the data  *)
(* of a Message event it is decoded like any payload, fails, and the       *)
(* bridge ends with DecodeError after the earlier records were sent; no    *)
(* run that pulled it ends Completed.                                      *)
C17_TerminalSignal ==
    \A i \in 1..Len(events) :
        (events[i] = Message("[DONE]") /\ pc = "done") =>
            /\ (pos >= i) => outcome # "Completed"
            /\ (FirstStop(events) = i /\ outcome # "DeliveryError") =>
                  /\ outcome = "DecodeError"
                  /\ pos = i
                  /\ sent = RecordsOf(SubSeq(events, 1, i - 1))

C17_Witness ==
    /\ pc = "done"
    /\ outcome = "DecodeError"
    /\ pos >= 3
    /\ events[pos] = Message("[DONE]")
    /\ Len(sent) = 2
    /\ closedSeen

(* C12 as the specification states it: once the task handle is dropped    *)
(* the bridge is cancelled, so it sends no further record and pulls no     *)
(* further event.                                                          *)
C12_Original ==
    [][handle = "dropped" => (sent' = sent /\ pos' = pos)]_vars

(* C12, amended: dropping the task handle does not cancel the bridge: the  *)
(* task is detached and runs as before, with no cancellation signal        *)
(* consulted; the transport connection and the Sender are released only    *)
(* when the bridge returns, and with the receiver kept the run ends with   *)
(* the records and the outcome the event sequence determines.              *)
C12_Detached ==
    handle = "dropped" =>
        /\ streamAlive <=> pc \in {"next", "send"}
        /\ txAlive <=> pc \in {"next", "send"}
        /\ (pc = "done" /\ rxAlive) =>
              /\ sent = Expected(events).records
              /\ outcome = Expected(events).outcome
        /\ pc = "done" =>
              outcome \in {"Completed", "TransportError", "DecodeError",
                           "DeliveryError"}
        /\ (pc = "send" /\ rxAlive /\ Len(queue) < 32) => ENABLED SendOk

C12_Witness ==
    /\ handle = "dropped"
    /\ pc = "done"
    /\ outcome = "Completed"
    /\ Len(sent) >= 2
    /\ Len(received) = 0
    /\ rxAlive

(* C14: the bridge imposes no timeout: while the source yields nothing,    *)
(* the bridge stays pending in the pull with no outcome, the transport and *)
(* the channel stay open, no bridge step is enabled, and a Consumer        *)
(* pulling from the empty channel is not released.                         *)
C14_NoTimeout ==
    idle > 0 =>
        /\ pc = "next"
        /\ pos = Len(events)
        /\ outcome = "None"
        /\ returns = 0
        /\ txAlive
        /\ streamAlive
        /\ ~closedSeen
        /\ ~ENABLED Bridge
        /\ ~ENABLED RecvClosed

C14_Witness ==
    /\ idle = MaxIdle
    /\ rxAlive
    /\ handle = "held"
    /\ queue = <<>>
    /\ Len(received) >= 1

(* C16: a caller that keeps rx, reads nothing and awaits the handle gets   *)
(* the outcome only when the source carries at most 32 decodable Message   *)
(* events before it ends or fails; with more, the bridge is pending in its *)
(* 33rd send on the full channel and no step of the system is enabled.     *)
C16_AwaitBeforeRead ==
    /\ (handle = "joined" /\ rxAlive /\ received = <<>> /\ ~closedSeen) =>
          /\ Len(Expected(events).records) <= 32
          /\ sent = Expected(events).records
          /\ outcome = Expected(events).outcome
    /\ (handle = "awaiting" /\ rxAlive /\ received = <<>>
          /\ Len(Expected(events).records) > 32) => pc # "done"
    /\ (handle = "awaiting" /\ rxAlive /\ pc = "send" /\ Len(queue) = 32) =>
          ~ENABLED SysNext
    /\ (handle = "awaiting" /\ rxAlive /\ received = <<>> /\ idle = 0
          /\ ~ENABLED SysNext) =>
          /\ pc = "send"
          /\ attempts = 32 + 1
          /\ Len(queue) = 32
          /\ Len(Expected(events).records) > 32

C16_Witness ==
    /\ handle = "awaiting"
    /\ rxAlive
    /\ received = <<>>
    /\ pc = "send"
    /\ attempts = 32 + 1
    /\ Len(queue) = 32
    /\ ~ENABLED SysNext

(* C18: create opens the stream first: when that fails it returns the      *)
(* StreamError with no channel and no task; when it succeeds exactly one   *)
(* task is spawned, which alone holds the event source and the one Sender  *)
(* of the channel until it returns.                                        *)
C18_Create ==
    /\ pc \in {"create", "failed"} =>
          /\ spawned = 0
          /\ handle = "none"
          /\ ~txAlive /\ ~rxAlive /\ ~streamAlive
          /\ queue = <<>> /\ pos = 0 /\ outcome = "None"
    /\ pc \in {"next", "send", "done"} =>
          /\ spawned = 1
          /\ handle # "none"
          /\ (IF txAlive THEN 1 ELSE 0) + txDrops = 1
    /\ pc \in {"next", "send"} => (streamAlive /\ txAlive)
    /\ pc = "done" => (~streamAlive /\ ~txAlive)
    /\ pc = "failed" => ~ENABLED SysNext

C18_Witness ==
    /\ pc = "failed"
    /\ spawned = 0
    /\ Len(events) > 0

=============================================================================
